---- MODULE Spec2Model ----
(***************************************************************************)
(* Race-Number-Radar (src/run.py): the concurrent classification pipeline  *)
(* of the `process` command.  Images of a directory are submitted to a     *)
(* thread pool, every task runs process_single_image (decode, encode, one  *)
(* remote call, parse of the reply) under a tenacity retry decorator, the  *)
(* completion loop folds the results into number_to_images, and the        *)
(* organizer copies every image into the directory of each of its numbers. *)
(*                                                                         *)
(* Text is a sequence of one-character strings; an image is its index in   *)
(* the scanned directory.                                                  *)
(***************************************************************************)
EXTENDS Integers, Sequences, FiniteSets, Bags, TLC

\* ------------------------------------------------------------------ bounds
MaxImages == 3
MaxWorkers == 2
MaxTokens == 3
MaxBibLen == 4
MaxSizeKB == 2

\* ------------------------------------------------------- program constants
DEFAULT_WORKERS == 8
DEFAULT_MIN_BIB_LEN == 3
DEFAULT_MAX_BIB_LEN == 4
StopAfterAttempt == 5
WaitMultiplier == 1
WaitMin == 2
WaitMax == 30
DEFAULT_MAX_SIZE_KB == 1500
DEFAULT_API_MODEL == "qwen/qwen2.5-vl-32b-instruct"
StartQuality == 95
QualityStep == 5
FloorQuality == 10

VARIABLES
    pc,                 \* position of process(): config, scan, client, submit, collect, organize, or a return
    flags,              \* the CLI options of `process`: <<>> when not given, else <<value>>
    config,             \* load_config(): the keys config.json holds, with their values
    effective_api_model,    \* line 230
    effective_max_size_kb,  \* line 238
    env,                \* the directory's images: env[i] is what decoding / the remote call does for image i
    api_key_set,        \* whether OpenAI(...) can be constructed
    files,              \* result of scan_directory
    effective_workers,  \* max_workers of the pool
    min_bib_len,        \* effective_min_bib_len handed to every task
    max_bib_len,        \* effective_max_bib_len handed to every task
    st,                 \* st[i]: state of the task of image i
    attempts,           \* attempts[i]: invocations of the body of process_single_image so far
    calls,              \* calls[i]: remote calls (client.chat.completions.create) made so far
    backoff,            \* backoff[i]: the waits slept between attempts, in seconds
    outcome,            \* outcome[i]: what future.result() gives once the task is finished
    sent,               \* sent[i]: the parameters of every encode-and-request the task made
    consumed,           \* the images whose future as_completed has yielded so far
    number_to_images,   \* the defaultdict(list): number -> list of images
    progress,           \* the progress bar's completed count
    organized,          \* [number, count] for every directory made and reported
    copies,             \* bag of <<number, image>>: the shutil.copy calls made
    enc_pc,             \* position of image_to_base64_uri: idle, loop, returned
    max_size_kb,        \* its max_size_kb argument
    quality,            \* its local quality
    buffered,           \* buffered.tell(): the bytes of the last JPEG written
    encodings           \* image.save calls made so far

vars == <<pc, flags, config, effective_api_model, effective_max_size_kb, sent,
          env, api_key_set, files, effective_workers, min_bib_len, max_bib_len,
          st, attempts, calls, backoff, outcome, consumed, number_to_images,
          progress, organized, copies,
          enc_pc, max_size_kb, quality, buffered, encodings>>

cfgVars == <<env, api_key_set, effective_workers, min_bib_len, max_bib_len,
             flags, config, effective_api_model, effective_max_size_kb>>
taskVars == <<st, attempts, calls, backoff, outcome, sent>>
loopVars == <<consumed, number_to_images, progress>>
orgVars == <<organized, copies>>
encVars == <<enc_pc, max_size_kb, quality, buffered, encodings>>

\* -------------------------------------------------------------------- text
Digits == {"0", "1", "2", "3", "4", "5", "6", "7", "8", "9"}
WhiteSpace == {" ", "\t", "\n"}

Range(s) == {s[k] : k \in DOMAIN s}

\* str.lower(), on the letters the modelled replies use
LowerChar(c) ==
    CASE c = "N" -> "n"
      [] c = "O" -> "o"
      [] c = "E" -> "e"
      [] c = "X" -> "x"
      [] OTHER -> c

Lower(s) == [k \in DOMAIN s |-> LowerChar(s[k])]

RECURSIVE LStrip(_)
LStrip(s) ==
    IF s # <<>> /\ Head(s) \in WhiteSpace THEN LStrip(Tail(s)) ELSE s

RECURSIVE RStrip(_)
RStrip(s) ==
    IF s # <<>> /\ s[Len(s)] \in WhiteSpace THEN RStrip(SubSeq(s, 1, Len(s) - 1)) ELSE s

\* str.strip()
Strip(s) == RStrip(LStrip(s))

\* `sub in s` on strings
In(sub, s) ==
    \E k \in 1..(Len(s) - Len(sub) + 1) : SubSeq(s, k, k + Len(sub) - 1) = sub

NoneWord == <<"n", "o", "n", "e">>

\* re.findall(r"\d+", s): scan left to right, cur is the run being read
RECURSIVE FindAllScan(_, _, _)
FindAllScan(s, cur, acc) ==
    IF s = <<>>
    THEN IF cur = <<>> THEN acc ELSE Append(acc, cur)
    ELSE IF Head(s) \in Digits
         THEN FindAllScan(Tail(s), Append(cur, Head(s)), acc)
         ELSE FindAllScan(Tail(s), <<>>, IF cur = <<>> THEN acc ELSE Append(acc, cur))

FindAllDigitRuns(s) == FindAllScan(s, <<>>, <<>>)

\* mutant: the upper bound is exclusive
LenInRange_Exclusive(num, minLen, maxLen) == minLen <= Len(num) /\ Len(num) < maxLen

\* the length test of the list comprehension
LenInRange(num, minLen, maxLen) == minLen <= Len(num) /\ Len(num) <= maxLen

FilterNumbers(detected, minLen, maxLen) ==
    SelectSeq(detected, LAMBDA num : LenInRange(num, minLen, maxLen))

\* mutant: only the reply that is exactly "none" counts
IsNoneReply_Exact(response_text) == response_text = NoneWord \/ response_text = <<>>

\* the test that answers "nothing found"
IsNoneReply(response_text) == In(NoneWord, response_text) \/ response_text = <<>>

\* lines 170-179: from message.content to the returned list
ParseReply(content, minLen, maxLen) ==
    LET response_text == Lower(Strip(content))
    IN  IF IsNoneReply(response_text)
        THEN <<>>
        ELSE FilterNumbers(FindAllDigitRuns(response_text), minLen, maxLen)


\* ------------------------------------------------ one image's environment
\* What happens when image i is processed:
\*   corrupt   - Image.open / convert raises (the file does not decode)
\*   transient - the remote call raises APIError (rate limit, 5xx, timeout)
\*   fatal     - the remote call raises AuthenticationError, a subclass of APIError
\*   crash     - the call returns, message.content is None, .strip() raises AttributeError
\*   reply     - the call returns content
Corrupt == [kind |-> "corrupt", content |-> <<>>]
Transient == [kind |-> "transient", content |-> <<>>]
Fatal == [kind |-> "fatal", content |-> <<>>]
Crash == [kind |-> "crash", content |-> <<>>]
Reply(text) == [kind |-> "reply", content |-> text]

\* replies of the pipeline runs: two numbers with one repeated, the "nothing
\* found" answer, and a digit run shorter than min_bib_len
Reply_123_456_123 == <<"1", "2", "3", ",", "4", "5", "6", ",", "1", "2", "3">>
Reply_none == <<"n", "o", "n", "e">>
Reply_12 == <<"1", "2">>
Reply_123 == <<"1", "2", "3">>

Replies == {Reply_123_456_123, Reply_none, Reply_12}

Scenarios == {Corrupt, Transient, Fatal, Crash} \cup {Reply(t) : t \in Replies}

\* the runs in which the handler's logging may raise use fewer scenarios
ScenariosRaising == {Corrupt, Transient, Reply(Reply_123_456_123), Reply(Reply_none)}

\* the runs checked for termination: a remote call that raises and a remote
\* call that returns a number
ScenariosFair == {Transient, Reply(Reply_123)}

\* replies of the parser runs: every concatenation of at most MaxTokens tokens
Tokens ==
    { <<"n", "o", "n", "e">>, <<"N", "O", "n", "E">>,
      <<"1", "2", ",", "1", "2", "3", ",">>, <<"1", "2", "3">>, <<"1", "2", "3", "4">>,
      <<",", "1", "2", "3", "4", "5">>, <<" ">>, <<"x">> }

RECURSIVE Concat(_)
Concat(ts) == IF ts = <<>> THEN <<>> ELSE Head(ts) \o Concat(Tail(ts))

\* ------------------------------------------------- process_single_image
\* the exception raised inside the try block, "none" when it runs to a return
RaisedInTry(e) ==
    CASE e.kind = "corrupt" -> "OSError"
      [] e.kind = "transient" -> "APIError"
      [] e.kind = "fatal" -> "AuthenticationError"
      [] e.kind = "crash" -> "AttributeError"
      [] OTHER -> "none"

\* isinstance(exc, APIError)
IsAPIError(exc) == exc \in {"APIError", "AuthenticationError"}

\* the remote call is reached unless decoding raised first
MakesRemoteCall(e) == e.kind # "corrupt"

\* mutant: the handler lets APIError through to the retry decorator
HandlerCatches_NonAPIOnly(exc) == exc # "none" /\ ~IsAPIError(exc)

\* `except Exception as e` (line 182): every exception of the try block is caught
HandlerCatches(exc) == exc # "none"

\* the body, lines 141-184: what one invocation returns or raises
process_single_image(e, minLen, maxLen) ==
    LET exc == RaisedInTry(e)
    IN  IF exc = "none"
        THEN [kind |-> "return", val |-> ParseReply(e.content, minLen, maxLen),
              exc |-> "none", handled |-> FALSE]
        ELSE IF HandlerCatches(exc)
             THEN [kind |-> "return", val |-> <<>>, exc |-> "none", handled |-> TRUE]
             ELSE [kind |-> "raise", val |-> <<>>, exc |-> exc, handled |-> FALSE]

\* line 144: image_to_base64_uri(image) is called without max_size_kb, so
\* the parameter's default applies
EncoderBoundUsed == DEFAULT_MAX_SIZE_KB

\* line 156: model=DEFAULT_API_MODEL
RequestModel == DEFAULT_API_MODEL

\* lines 144-168: what one invocation encodes with and asks for; the prompt
\* carries the length bounds the task was given
RequestOf(minLen, maxLen) ==
    [model |-> RequestModel, max_size_kb |-> EncoderBoundUsed,
     min_bib_len |-> minLen, max_bib_len |-> maxLen]

\* the requests of a task after one more invocation
SentAfter(log, e, minLen, maxLen) ==
    IF MakesRemoteCall(e) THEN Append(log, RequestOf(minLen, maxLen)) ELSE log

\* ------------------------------------------------------ the retry decorator
\* retry=retry_if_exception_type(APIError)
RetryIf(o) == o.kind = "raise" /\ IsAPIError(o.exc)

\* stop=stop_after_attempt(5)
StopNow(attempt_number) == attempt_number >= StopAfterAttempt

RECURSIVE Pow2(_)
Pow2(k) == IF k <= 0 THEN 1 ELSE 2 * Pow2(k - 1)

Max2(a, b) == IF a >= b THEN a ELSE b
Min2(a, b) == IF a <= b THEN a ELSE b

\* wait=wait_exponential(multiplier=1, min=2, max=30), after attempt attempt_number
WaitExponential(attempt_number) ==
    Max2(WaitMin, Min2(WaitMultiplier * Pow2(attempt_number - 1), WaitMax))

NoOutcome == [kind |-> "pending", val |-> <<>>, exc |-> "none"]

\* ------------------------------------------------------------------- state
Images == DOMAIN env

Running == {i \in Images : st[i] \in {"Attempting", "Retrying"}}
Terminal(i) == st[i] \in {"Succeeded", "Failed"}

\* sequences over S of length lo..hi
SeqsOf(S, lo, hi) == UNION {[1..n -> S] : n \in lo..hi}

Texts == {Concat(ts) : ts \in SeqsOf(Tokens, 0, MaxTokens)}

ParserScenarios == {Crash} \cup {Reply(t) : t \in Texts}

TasksInit ==
    /\ st = [i \in DOMAIN env |-> "Unsubmitted"]
    /\ attempts = [i \in DOMAIN env |-> 0]
    /\ calls = [i \in DOMAIN env |-> 0]
    /\ backoff = [i \in DOMAIN env |-> <<>>]
    /\ outcome = [i \in DOMAIN env |-> NoOutcome]
    /\ sent = [i \in DOMAIN env |-> <<>>]

\* image_to_base64_uri is not running
EncoderIdle ==
    /\ enc_pc = "idle"
    /\ max_size_kb = DEFAULT_MAX_SIZE_KB
    /\ quality = StartQuality
    /\ buffered = 0
    /\ encodings = 0

\* no option given
NoFlags ==
    [api_model |-> <<>>, workers |-> <<>>, min_bib_len |-> <<>>,
     max_bib_len |-> <<>>, max_size_kb |-> <<>>]

\* the state after lines 228-240 of a run without options whose config.json
\* holds the pool size and the length bounds in use
ResolvedInit ==
    /\ flags = NoFlags
    /\ config = [k \in {"workers", "min_bib_len", "max_bib_len"} |->
                    CASE k = "workers" -> effective_workers
                      [] k = "min_bib_len" -> min_bib_len
                      [] k = "max_bib_len" -> max_bib_len]
    /\ effective_api_model = DEFAULT_API_MODEL
    /\ effective_max_size_kb = DEFAULT_MAX_SIZE_KB

RestInit ==
    /\ ResolvedInit
    /\ EncoderIdle
    /\ files = <<>>
    /\ consumed = {}
    /\ number_to_images = <<>>
    /\ progress = 0
    /\ organized = {}
    /\ copies = EmptyBag

Init ==
    /\ pc = "scan"
    /\ env \in SeqsOf(Scenarios, 0, MaxImages)
    /\ api_key_set \in BOOLEAN
    /\ effective_workers \in 1..MaxWorkers
    /\ min_bib_len = DEFAULT_MIN_BIB_LEN
    /\ max_bib_len = DEFAULT_MAX_BIB_LEN
    /\ TasksInit
    /\ RestInit

\* the same start with the scenarios of the raising runs
InitRaising ==
    /\ pc = "scan"
    /\ env \in SeqsOf(ScenariosRaising, 0, MaxImages)
    /\ api_key_set \in BOOLEAN
    /\ effective_workers \in 1..MaxWorkers
    /\ min_bib_len = DEFAULT_MIN_BIB_LEN
    /\ max_bib_len = DEFAULT_MAX_BIB_LEN
    /\ TasksInit
    /\ RestInit

InitFair ==
    /\ pc = "scan"
    /\ env \in SeqsOf(ScenariosFair, 0, MaxImages)
    /\ api_key_set \in BOOLEAN
    /\ effective_workers \in 1..MaxWorkers
    /\ min_bib_len = DEFAULT_MIN_BIB_LEN
    /\ max_bib_len = DEFAULT_MAX_BIB_LEN
    /\ TasksInit
    /\ RestInit

\* one image, any reply, any length bounds: the task alone
InitParser ==
    /\ pc = "scan"
    /\ env \in SeqsOf(ParserScenarios, 1, 1)
    /\ api_key_set = TRUE
    /\ effective_workers = 1
    /\ min_bib_len \in 1..MaxBibLen
    /\ max_bib_len \in 1..MaxBibLen
    /\ TasksInit
    /\ RestInit

\* ------------------------------------------------- process(): the options
\* the options and config.json values of the configuration runs: every
\* option is absent, 0 or a value; every key is absent or holds a value
FlagChoices ==
    [api_model : {<<>>, <<"flag/model">>},
     workers : {<<>>, <<0>>, <<1>>},
     min_bib_len : {<<>>, <<0>>, <<2>>},
     max_bib_len : {<<>>, <<0>>, <<5>>},
     max_size_kb : {<<>>, <<0>>, <<500>>}]

ConfigFull ==
    [k \in {"api_model", "workers", "min_bib_len", "max_bib_len", "max_size_kb"} |->
        CASE k = "api_model" -> "config/model"
          [] k = "workers" -> 2
          [] k = "min_bib_len" -> 1
          [] k = "max_bib_len" -> 3
          [] k = "max_size_kb" -> 1000]

ConfigChoices == {[k \in K |-> ConfigFull[k]] : K \in SUBSET DOMAIN ConfigFull}

Unset == "unset"

\* process() is entered: nothing is resolved yet
InitConfig ==
    /\ pc = "config"
    /\ flags \in FlagChoices
    /\ config \in ConfigChoices
    /\ effective_api_model = Unset
    /\ effective_workers = Unset
    /\ min_bib_len = Unset
    /\ max_bib_len = Unset
    /\ effective_max_size_kb = Unset
    /\ env \in SeqsOf({Corrupt, Reply(Reply_123_456_123)}, 1, 1)
    /\ api_key_set = TRUE
    /\ TasksInit
    /\ EncoderIdle
    /\ files = <<>>
    /\ consumed = {}
    /\ number_to_images = <<>>
    /\ progress = 0
    /\ organized = {}
    /\ copies = EmptyBag

\* config.get(key, default)
ConfigGet(cfg, key, default) == IF key \in DOMAIN cfg THEN cfg[key] ELSE default

\* bool(option) for an Optional[int] and an Optional[str]
TruthyInt(opt) == opt # <<>> /\ opt[1] # 0
TruthyStr(opt) == opt # <<>> /\ opt[1] # ""

\* `option or other`
OrInt(opt, other) == IF TruthyInt(opt) THEN opt[1] ELSE other
OrStr(opt, other) == IF TruthyStr(opt) THEN opt[1] ELSE other

\* lines 228-240: load_config() and the five effective values
Resolve ==
    /\ pc = "config"
    /\ effective_api_model' = OrStr(flags.api_model, ConfigGet(config, "api_model", DEFAULT_API_MODEL))
    /\ effective_workers' = OrInt(flags.workers, ConfigGet(config, "workers", DEFAULT_WORKERS))
    /\ min_bib_len' = OrInt(flags.min_bib_len, ConfigGet(config, "min_bib_len", DEFAULT_MIN_BIB_LEN))
    /\ max_bib_len' = OrInt(flags.max_bib_len, ConfigGet(config, "max_bib_len", DEFAULT_MAX_BIB_LEN))
    /\ effective_max_size_kb' = OrInt(flags.max_size_kb, ConfigGet(config, "max_size_kb", DEFAULT_MAX_SIZE_KB))
    /\ pc' = "scan"
    /\ UNCHANGED <<encVars, env, api_key_set, flags, config, files, taskVars, loopVars, orgVars>>

\* ------------------------------------------------------ process(): start-up
\* lines 242-245: scan the directory, return when it holds no image
Scan ==
    /\ pc = "scan"
    /\ files' = [i \in DOMAIN env |-> i]
    /\ pc' = IF Len(env) = 0 THEN "no_files" ELSE "client"
    /\ UNCHANGED <<encVars, cfgVars, taskVars, loopVars, orgVars>>

\* mutant: the run goes on to dispatch although OpenAI(...) raised
MakeClient_IgnoresFailure ==
    /\ pc = "client"
    /\ pc' = "submit"
    /\ UNCHANGED <<encVars, files, cfgVars, taskVars, loopVars, orgVars>>

\* lines 252-258: construct the client, return when that raises
MakeClient ==
    /\ pc = "client"
    /\ pc' = IF api_key_set THEN "submit" ELSE "no_client"
    /\ UNCHANGED <<encVars, files, cfgVars, taskVars, loopVars, orgVars>>

\* lines 265-274: executor.submit for the next file; after the last one the
\* comprehension ends and as_completed begins
Submit ==
    /\ pc = "submit"
    /\ LET k == Cardinality({i \in Images : st[i] # "Unsubmitted"}) + 1
       IN  /\ st' = [st EXCEPT ![files[k]] = "Pending"]
           /\ pc' = IF k = Len(files) THEN "collect" ELSE "submit"
    /\ UNCHANGED <<encVars, files, cfgVars, attempts, calls, backoff, outcome, sent, loopVars, orgVars>>

\* ---------------------------------------------------------- the thread pool
\* mutant: the pool starts a queued task whether or not a thread is free
SlotFree_Unbounded == TRUE

\* a pool thread is free: ThreadPoolExecutor(max_workers=effective_workers)
SlotFree == Cardinality(Running) < effective_workers

\* a free pool thread takes the oldest queued work item
Start(i) ==
    /\ st[i] = "Pending"
    /\ \A j \in Images : st[j] = "Pending" => i <= j
    /\ SlotFree
    /\ st' = [st EXCEPT ![i] = "Attempting"]
    /\ UNCHANGED <<encVars, pc, files, cfgVars, attempts, calls, backoff, outcome, sent, loopVars, orgVars>>

\* the state a finished invocation leaves the task in
StateAfter(o) == IF o.kind = "return" /\ ~o.handled THEN "Succeeded" ELSE "Failed"

\* One invocation of the decorated function (lines 116-184): the body runs,
\* then the decorator returns its value, retries after a wait, or raises.
Attempt(i) ==
    /\ st[i] \in {"Attempting", "Retrying"}
    /\ LET n == attempts[i] + 1
           o == process_single_image(env[i], min_bib_len, max_bib_len)
       IN  /\ attempts' = [attempts EXCEPT ![i] = n]
           /\ calls' = [calls EXCEPT ![i] = @ + (IF MakesRemoteCall(env[i]) THEN 1 ELSE 0)]
           /\ sent' = [sent EXCEPT ![i] = SentAfter(@, env[i], min_bib_len, max_bib_len)]
           /\ IF ~RetryIf(o)
              THEN /\ st' = [st EXCEPT ![i] = StateAfter(o)]
                   /\ outcome' = [outcome EXCEPT ![i] = [kind |-> o.kind, val |-> o.val, exc |-> o.exc]]
                   /\ UNCHANGED backoff
              ELSE IF StopNow(n)
                   THEN /\ st' = [st EXCEPT ![i] = "Failed"]
                        /\ outcome' = [outcome EXCEPT ![i] = [kind |-> "raise", val |-> <<>>, exc |-> "RetryError"]]
                        /\ UNCHANGED backoff
                   ELSE /\ st' = [st EXCEPT ![i] = "Retrying"]
                        /\ backoff' = [backoff EXCEPT ![i] = Append(@, WaitExponential(n))]
                        /\ UNCHANGED outcome
    /\ UNCHANGED <<encVars, pc, files, cfgVars, loopVars, orgVars>>

\* The except handler's own console.print (line 183) raises: the exception
\* leaves the body, is no APIError, and becomes the future's exception.
HandlerRaises(i) ==
    /\ st[i] \in {"Attempting", "Retrying"}
    /\ RaisedInTry(env[i]) # "none"
    /\ HandlerCatches(RaisedInTry(env[i]))
    /\ attempts' = [attempts EXCEPT ![i] = @ + 1]
    /\ calls' = [calls EXCEPT ![i] = @ + (IF MakesRemoteCall(env[i]) THEN 1 ELSE 0)]
    /\ sent' = [sent EXCEPT ![i] = SentAfter(@, env[i], min_bib_len, max_bib_len)]
    /\ st' = [st EXCEPT ![i] = "Failed"]
    /\ outcome' = [outcome EXCEPT ![i] = [kind |-> "raise", val |-> <<>>, exc |-> "Exception"]]
    /\ UNCHANGED <<encVars, pc, files, cfgVars, backoff, loopVars, orgVars>>

\* ------------------------------------------------------ the completion loop
\* mutant: the bucket is overwritten instead of appended to
AppendTo_Overwrite(m, number, file_path) ==
    [d \in DOMAIN m \cup {number} |-> IF d = number THEN <<file_path>> ELSE m[d]]

\* number_to_images[number].append(file_path) on the defaultdict(list)
AppendTo(m, number, file_path) ==
    [d \in DOMAIN m \cup {number} |->
        IF d = number
        THEN IF d \in DOMAIN m THEN Append(m[d], file_path) ELSE <<file_path>>
        ELSE m[d]]

\* mutant: only the first detected number is recorded
AddAll_FirstOnly(m, detected_numbers, file_path) ==
    IF detected_numbers = <<>> THEN m ELSE AppendTo(m, Head(detected_numbers), file_path)

\* lines 279-281: for number in detected_numbers: ...append(file_path)
RECURSIVE AddAll(_, _, _)
AddAll(m, detected_numbers, file_path) ==
    IF detected_numbers = <<>>
    THEN m
    ELSE AddAll(AppendTo(m, Head(detected_numbers), file_path), Tail(detected_numbers), file_path)

\* lines 277-289: the try block on future.result() and its except branch
Aggregate(m, o, file_path) ==
    IF o.kind = "return" THEN AddAll(m, o.val, file_path) ELSE m

\* mutant: no except branch, a raising future ends the loop
AfterFuture_Uncaught(o) == IF o.kind = "raise" THEN "crashed" ELSE "collect"

\* where the loop stands after one future: the except branch only logs
AfterFuture(o) == "collect"

\* mutant: the progress update sits inside `if detected_numbers:`
Advance_DetectedOnly(o) == IF o.kind = "return" /\ o.val # <<>> THEN 1 ELSE 0

\* line 291: progress.update(task, advance=1), after the try statement
Advance(o) == 1

\* one iteration of `for future in as_completed(...)`
Consume(i) ==
    /\ pc = "collect"
    /\ Terminal(i)
    /\ i \notin consumed
    /\ consumed' = consumed \cup {i}
    /\ number_to_images' = Aggregate(number_to_images, outcome[i], i)
    /\ progress' = progress + Advance(outcome[i])
    /\ pc' = AfterFuture(outcome[i])
    /\ UNCHANGED <<encVars, files, cfgVars, taskVars, orgVars>>

\* mutant: the with-blocks exit without waiting for the remaining futures
FinishCollect_Early ==
    /\ pc = "collect"
    /\ pc' = "organize"
    /\ UNCHANGED <<encVars, files, cfgVars, taskVars, loopVars, orgVars>>

\* the loop is exhausted, both with-blocks exit (line 293)
FinishCollect ==
    /\ pc = "collect"
    /\ consumed = Images
    /\ pc' = "organize"
    /\ UNCHANGED <<encVars, files, cfgVars, taskVars, loopVars, orgVars>>

\* ------------------------------------------------------------ the organizer
\* mutant: the organizer reports 'nothing detected' whatever the mapping holds
OrganizeNothing_Unguarded ==
    /\ pc = "organize"
    /\ pc' = "nothing_detected"
    /\ UNCHANGED <<encVars, files, cfgVars, taskVars, loopVars, orgVars>>

\* lines 294-296
OrganizeNothing ==
    /\ pc = "organize"
    /\ DOMAIN number_to_images = {}
    /\ pc' = "nothing_detected"
    /\ UNCHANGED <<encVars, files, cfgVars, taskVars, loopVars, orgVars>>

\* number of positions of list s that hold x
Occurrences(x, s) == Cardinality({k \in DOMAIN s : s[k] = x})

\* mutant: the copy loop runs over the list itself, `for img_path in images`
ImagesToCopy_List(images) == [img \in Range(images) |-> Occurrences(img, images)]

\* `for img_path in set(images)`: the images copied for one number
ImagesToCopy(images) == SetToBag(Range(images))

\* len(set(images)) of the report line
ReportedCount(images) == Cardinality(Range(images))

\* the shutil.copy calls of one number's bucket, as a bag of <<number, image>>
CopyCalls(number, images) ==
    LET todo == ImagesToCopy(images)
    IN  [p \in {<<number, img>> : img \in DOMAIN todo} |-> todo[p[2]]]

\* lines 298-306: the loop over number_to_images.items()
OrganizeAll ==
    /\ pc = "organize"
    /\ DOMAIN number_to_images # {}
    /\ organized' = {[number |-> d, count |-> ReportedCount(number_to_images[d])] :
                        d \in DOMAIN number_to_images}
    /\ copies' = BagUnion({CopyCalls(d, number_to_images[d]) : d \in DOMAIN number_to_images})
    /\ pc' = "done"
    /\ UNCHANGED <<encVars, files, cfgVars, taskVars, loopVars>>

\* ------------------------------------------------------ image_to_base64_uri
\* the byte sizes a JPEG of the image may have: around every multiple of 1024
EncodedSizes == {k * 1024 + d : k \in 1..(MaxSizeKB + 1), d \in {-1, 0, 1}}

\* line 105: the encoder is entered with some max_size_kb, nothing else runs
InitEncoder ==
    /\ pc = "encoder"
    /\ env = <<>>
    /\ api_key_set = TRUE
    /\ effective_workers = 1
    /\ min_bib_len = DEFAULT_MIN_BIB_LEN
    /\ max_bib_len = DEFAULT_MAX_BIB_LEN
    /\ TasksInit
    /\ ResolvedInit
    /\ files = <<>>
    /\ consumed = {}
    /\ number_to_images = <<>>
    /\ progress = 0
    /\ organized = {}
    /\ copies = EmptyBag
    /\ enc_pc = "loop"
    /\ max_size_kb \in 0..MaxSizeKB
    /\ quality = StartQuality
    /\ buffered = 0
    /\ encodings = 0

\* `buffered.tell() / 1024 <= max_size_kb`
FitsIn(size, kb) == size <= kb * 1024

\* mutant: the floor test is strict
FloorReached_Strict(q) == q < FloorQuality

\* `quality <= 10`
FloorReached(q) == q <= FloorQuality

\* lines 106-113: one pass of the while loop; the image written at the
\* current quality has some size, then the loop breaks and the function
\* returns that buffer, or the quality goes down one step
EncodeIteration ==
    /\ enc_pc = "loop"
    /\ \E size \in EncodedSizes :
         /\ buffered' = size
         /\ encodings' = encodings + 1
         /\ IF FitsIn(size, max_size_kb) \/ FloorReached(quality)
            THEN enc_pc' = "returned" /\ UNCHANGED quality
            ELSE enc_pc' = "loop" /\ quality' = quality - QualityStep
    /\ UNCHANGED <<pc, files, cfgVars, taskVars, loopVars, orgVars, max_size_kb>>

\* ----------------------------------------------------------- specifications
Next ==
    \/ Scan
    \/ MakeClient
    \/ Submit
    \/ \E i \in Images : Start(i)
    \/ \E i \in Images : Attempt(i)
    \/ \E i \in Images : Consume(i)
    \/ FinishCollect
    \/ OrganizeNothing
    \/ OrganizeAll

Spec == Init /\ [][Next]_vars

\* the same program when the handler's logging may raise
NextRaising == Next \/ \E i \in Images : HandlerRaises(i)

SpecRaising == InitRaising /\ [][NextRaising]_vars

\* The main thread keeps running, the pool keeps starting queued tasks on its
\* free threads, and every invocation (with its remote call) eventually
\* returns or raises.
Fairness ==
    /\ WF_vars(Scan \/ MakeClient \/ Submit \/ FinishCollect \/ OrganizeNothing \/ OrganizeAll
                \/ \E i \in Images : Consume(i))
    /\ WF_vars(\E i \in Images : Start(i))
    /\ WF_vars(\E i \in Images : Attempt(i) \/ HandlerRaises(i))

SpecFair == InitFair /\ [][NextRaising]_vars /\ Fairness

\* the pipeline on one image, for the parser
SpecParser == InitParser /\ [][Next]_vars

\* process() from its first line, with options and config.json
NextConfig == Resolve \/ Next

SpecConfig == InitConfig /\ [][NextConfig]_vars

\* the encoder alone
NextEncoder == EncodeIteration

SpecEncoder == InitEncoder /\ [][NextEncoder]_vars


\* ==================================================================== claims
\* the classification result of image i: the list its task returned, empty
\* while it has none and when the future holds an exception
ResultOf(i) == IF outcome[i].kind = "return" THEN outcome[i].val ELSE <<>>

\* the (number, image) pairs of the mapping
BucketPairs == UNION {{<<d, i>> : i \in Range(number_to_images[d])} : d \in DOMAIN number_to_images}

\* the (number, image) pairs of the classification results
ResultPairs == UNION {{<<d, i>> : d \in Range(ResultOf(i))} : i \in Images}

Dispatched == pc \in {"organize", "nothing_detected", "done"}

N123 == <<"1", "2", "3">>
N456 == <<"4", "5", "6">>

\* C1: the number of tasks that have started and not yet finished (executing
\* process_single_image or waiting between its attempts) never exceeds the
\* pool size effective_workers.
C1_PoolBound == Cardinality(Running) <= effective_workers

\* the pool is full while a submitted task waits for a thread
C1_PoolFull ==
    /\ Cardinality(Running) = effective_workers
    /\ \E i \in Images : st[i] = "Pending"
    /\ \E i \in Images : Terminal(i)

\* C2: a task whose remote call raises APIError on every attempt makes exactly
\* StopAfterAttempt = 5 remote calls before it ends, and does not fail before
\* its fifth attempt.
C2_RetryBound ==
    \A i \in Images :
        env[i].kind = "transient" =>
            /\ Terminal(i) => calls[i] = StopAfterAttempt
            /\ st[i] = "Failed" => attempts[i] >= StopAfterAttempt

\* C3: an image is in the bucket of number d only if d is in its
\* classification result; once all tasks are consumed the mapping holds
\* exactly the pairs (d, image) with d in the image's result.
C3_BucketsMatchResults ==
    /\ \A d \in DOMAIN number_to_images :
         \A i \in Range(number_to_images[d]) : i \in consumed /\ d \in Range(ResultOf(i))
    /\ Dispatched => BucketPairs = ResultPairs

\* an image with two numbers in both buckets, next to a "none" image and a
\* failed image in no bucket
C3_TwoBucketsAndNone ==
    /\ pc = "done"
    /\ \E a, b, c \in Images :
         /\ env[a] = Reply(Reply_123_456_123)
         /\ env[b] = Reply(Reply_none)
         /\ env[c] = Fatal
         /\ DOMAIN number_to_images = {N123, N456}
         /\ \A d \in DOMAIN number_to_images :
              a \in Range(number_to_images[d]) /\ Range(number_to_images[d]) = {a}

C5_LoopSurvivesRaise ==
    /\ [][\A i \in Images :
            (i \notin consumed /\ i \in consumed' /\ outcome[i].kind = "raise") =>
                /\ number_to_images' = number_to_images
                /\ progress' = progress + 1
                /\ pc' = "collect"]_vars
    /\ [](Dispatched => consumed = Images /\ BucketPairs = ResultPairs)

\* a raising future was consumed first, a task with numbers is still to be consumed
C5_RaiseConsumedFirst ==
    /\ pc = "collect"
    /\ \E i \in consumed : outcome[i].kind = "raise"
    /\ DOMAIN number_to_images = {}
    /\ \E j \in Images \ consumed : Terminal(j) /\ ResultOf(j) # <<>>

\* C6 as claimed: an image is at most once in a number's bucket of the mapping.
C6_ImageOncePerBucket ==
    \A d \in DOMAIN number_to_images :
        \A i \in Range(number_to_images[d]) : Occurrences(i, number_to_images[d]) = 1

\* C6 as amended: the bucket list may hold an image several times, and the
\* organizer still copies each image of a bucket once into the number's
\* directory and reports the number of distinct images.
C6_CopiedOncePerBucket ==
    pc = "done" =>
        /\ \A d \in DOMAIN number_to_images :
             /\ [number |-> d, count |-> Cardinality(Range(number_to_images[d]))] \in organized
             /\ \A i \in Range(number_to_images[d]) : CopiesIn(<<d, i>>, copies) = 1
        /\ BagToSet(copies) = BucketPairs
        /\ Cardinality(organized) = Cardinality(DOMAIN number_to_images)

\* a reply that repeats a number: the image is twice in the list, copied once
C6_RepeatedNumberOrganized ==
    /\ pc = "done"
    /\ \E i \in Images :
         /\ env[i] = Reply(Reply_123_456_123)
         /\ Occurrences(i, number_to_images[N123]) = 2
         /\ CopiesIn(<<N123, i>>, copies) = 1

\* the reply holds "none" in any letter case
HasNoneAnyCase(t) ==
    \E k \in 1..(Len(t) - 3) :
        /\ LowerChar(t[k]) = "n"
        /\ LowerChar(t[k + 1]) = "o"
        /\ LowerChar(t[k + 2]) = "n"
        /\ LowerChar(t[k + 3]) = "e"

\* the reply is empty once trimmed
AllBlank(t) == \A k \in DOMAIN t : t[k] \in WhiteSpace

\* C7: a reply that is empty after trimming, or holds "none" in any letter
\* case, gives the empty list, whatever digits it holds and whatever the
\* length bounds are.
C7_NoneGivesEmpty ==
    \A i \in Images :
        (env[i].kind = "reply" /\ Terminal(i)
            /\ (AllBlank(env[i].content) \/ HasNoneAnyCase(env[i].content))) =>
        outcome[i] = [kind |-> "return", val |-> <<>>, exc |-> "none"]

\* a reply with "NOnE" and a digit run of an accepted length, parsed to nothing
C7_NoneBesideDigits ==
    \E i \in Images :
        /\ Terminal(i)
        /\ env[i] = Reply(<<"1", "2", "3", "N", "O", "n", "E", "1", "2", "3", "4">>)
        /\ min_bib_len = 3 /\ max_bib_len = 4
        /\ ResultOf(i) = <<>>

\* the maximal digit runs of t by position: a run starts at a digit that no
\* digit precedes and ends at the last digit before a non-digit or the end
RunStarts(t) == {k \in DOMAIN t : t[k] \in Digits /\ (k = 1 \/ t[k - 1] \notin Digits)}

RunEnd(t, k) ==
    CHOOSE e \in k..Len(t) :
        /\ \A j \in k..e : t[j] \in Digits
        /\ e = Len(t) \/ t[e + 1] \notin Digits

\* the runs of an accepted length, in order of appearance
AcceptedRuns(t, minLen, maxLen) ==
    LET S == {k \in RunStarts(t) : minLen <= RunEnd(t, k) - k + 1 /\ RunEnd(t, k) - k + 1 <= maxLen}
        nth(n) == CHOOSE k \in S : Cardinality({j \in S : j < k}) = n - 1
    IN  [n \in 1..Cardinality(S) |-> SubSeq(t, nth(n), RunEnd(t, nth(n)))]

\* C8: a reply without "none" gives exactly its maximal digit runs of length
\* min_bib_len..max_bib_len (both inclusive), in order of appearance, repeats
\* kept; a longer run is dropped whole.
C8_RunsInRange ==
    \A i \in Images :
        (env[i].kind = "reply" /\ Terminal(i) /\ ~HasNoneAnyCase(env[i].content)) =>
        outcome[i] = [kind |-> "return",
                      val |-> AcceptedRuns(env[i].content, min_bib_len, max_bib_len),
                      exc |-> "none"]

\* "12,123,1234,12345" with bounds 3..4 gives "123", "1234"
C8_SpecExample ==
    \E i \in Images :
        /\ Terminal(i)
        /\ env[i] = Reply(<<"1", "2", ",", "1", "2", "3", ",", "1", "2", "3", "4", ",",
                            "1", "2", "3", "4", "5">>)
        /\ min_bib_len = 3 /\ max_bib_len = 4
        /\ ResultOf(i) = << <<"1", "2", "3">>, <<"1", "2", "3", "4">> >>

\* C9: the progress count equals the number of futures consumed, whether the
\* task returned numbers, returned the empty list or raised; it never exceeds
\* the number of images and equals it when the loop has ended.
C9_ProgressCountsConsumed ==
    /\ progress = Cardinality(consumed)
    /\ progress <= Len(env)
    /\ Dispatched => progress = Len(files)

\* all three kinds of result were consumed and counted
C9_AllKindsCounted ==
    /\ Dispatched
    /\ progress = 3
    /\ \E a, b, c \in Images :
         /\ outcome[a].kind = "raise"
         /\ outcome[b] = [kind |-> "return", val |-> <<>>, exc |-> "none"]
         /\ outcome[c].kind = "return" /\ outcome[c].val # <<>>

\* what image i's task returns, by its environment alone
ExpectedOf(i) ==
    LET o == process_single_image(env[i], min_bib_len, max_bib_len)
    IN  IF o.kind = "return" THEN o.val ELSE <<>>

AllNumbers == UNION {Range(ExpectedOf(i)) : i \in Images}

\* C10: the mapping changes only in a step of the completion loop, never in a
\* step of a task, and no append is lost: when the loop has ended, image i is
\* in the list of number d as often as d is in i's result, whatever the order
\* in which the tasks completed and were consumed.
C10_SingleWriterNoLostUpdate ==
    /\ [][number_to_images' # number_to_images =>
            /\ pc = "collect"
            /\ taskVars' = taskVars
            /\ \E i \in Images \ consumed : consumed' = consumed \cup {i}]_vars
    /\ [](Dispatched =>
            /\ DOMAIN number_to_images = AllNumbers
            /\ \A d \in AllNumbers : \A i \in Images :
                 Occurrences(i, number_to_images[d]) = Occurrences(d, ExpectedOf(i)))

\* two images with the same number, the later-submitted one consumed first
C10_SharedBucketOutOfOrder ==
    /\ Dispatched
    /\ \E a, b \in Images :
         /\ a < b
         /\ N123 \in DOMAIN number_to_images
         /\ Head(number_to_images[N123]) = b
         /\ a \in Range(number_to_images[N123])


\* the qualities the loop can stand at: 95, 90, ..., 10
TriedQualities == {StartQuality - QualityStep * k : k \in 0..17}

\* C11: the encoder tries the qualities 95, 90, 85, ... in steps of 5; it goes
\* one step down only after an encoding larger than max_size_kb at a quality
\* above 10, and it returns a buffer that fits or was written at quality 10:
\* so it returns the first quality that fits, else the quality-10 buffer, after
\* at most 18 encodings.
C11_FirstFitOrFloor ==
    /\ [][quality' # quality =>
            /\ quality' = quality - QualityStep
            /\ quality > FloorQuality
            /\ ~(buffered' <= max_size_kb * 1024)]_vars
    /\ [](/\ quality \in TriedQualities
          /\ encodings <= 18
          /\ encodings = (StartQuality - quality) \div QualityStep
                           + (IF enc_pc = "returned" THEN 1 ELSE 0)
          /\ enc_pc = "returned" =>
                \/ buffered <= max_size_kb * 1024
                \/ quality = FloorQuality)

\* nothing fitted: the 18th encoding, at quality 10, is returned over the bound
C11_FloorReturnedOversize ==
    /\ enc_pc = "returned"
    /\ quality = FloorQuality
    /\ encodings = 18
    /\ buffered > max_size_kb * 1024


\* C12 as claimed: what the pipeline uses are the effective values: the pool
\* holds effective_workers threads, every task is given the effective length
\* bounds, every image is encoded under effective_max_size_kb and every
\* request names effective_api_model.
C12_EffectiveValuesUsed ==
    pc # "config" =>
        /\ Cardinality(Running) <= effective_workers
        /\ \A i \in Images : \A k \in DOMAIN sent[i] :
             /\ sent[i][k].min_bib_len = min_bib_len
             /\ sent[i][k].max_bib_len = max_bib_len
             /\ sent[i][k].max_size_kb = effective_max_size_kb
             /\ sent[i][k].model = effective_api_model

\* the value an option resolves to when a given option always wins
FlagFirst(opt, key, default) ==
    IF opt # <<>> THEN opt[1] ELSE ConfigGet(config, key, default)

\* C13 as claimed: each effective value is the option's value whenever the
\* option is given, 0 included, else config.json's value when it holds the
\* key, else the built-in default.
C13_FlagOverridesConfig ==
    pc # "config" =>
        /\ effective_api_model = FlagFirst(flags.api_model, "api_model", DEFAULT_API_MODEL)
        /\ effective_workers = FlagFirst(flags.workers, "workers", DEFAULT_WORKERS)
        /\ min_bib_len = FlagFirst(flags.min_bib_len, "min_bib_len", DEFAULT_MIN_BIB_LEN)
        /\ max_bib_len = FlagFirst(flags.max_bib_len, "max_bib_len", DEFAULT_MAX_BIB_LEN)
        /\ effective_max_size_kb = FlagFirst(flags.max_size_kb, "max_size_kb", DEFAULT_MAX_SIZE_KB)


\* the run returned at line 245 or at line 256
Aborted == pc \in {"no_files", "no_client"}

\* no task submitted, no remote call, empty mapping, nothing organized
NothingDispatched ==
    /\ \A i \in Images : st[i] = "Unsubmitted" /\ calls[i] = 0 /\ sent[i] = <<>>
    /\ consumed = {}
    /\ DOMAIN number_to_images = {}
    /\ organized = {}
    /\ copies = EmptyBag

\* C14: when the scan finds no supported image or the client cannot be
\* constructed, the run returns before dispatch and stays there: no task is
\* ever submitted, no remote call made, the mapping stays empty, and no
\* subdirectory is created and no file copied.
C14_AbortBeforeDispatch ==
    /\ [][/\ (pc = "scan" /\ Len(env) = 0 => pc' = "no_files")
          /\ (pc = "client" /\ ~api_key_set => pc' = "no_client")
          /\ ~Aborted]_vars
    /\ [](Len(env) = 0 \/ ~api_key_set => NothingDispatched)
    /\ [](Aborted => NothingDispatched)

\* the client could not be constructed for a directory with images
C14_NoClientWithImages == pc = "no_client" /\ Len(files) > 1


\* C17: every key of the mapping has a non-empty bucket in every state; once
\* all tasks are done the mapping is empty exactly when no image produced an
\* in-range number, and exactly then the organizer takes the 'nothing
\* detected' return and creates no subdirectory; otherwise it organizes.
C17_NoEmptyBucket ==
    /\ \A n \in DOMAIN number_to_images : Len(number_to_images[n]) >= 1
    /\ Dispatched =>
         (DOMAIN number_to_images = {} <=> \A i \in Images : ResultOf(i) = <<>>)
    /\ pc = "nothing_detected" =>
         /\ \A i \in Images : ResultOf(i) = <<>>
         /\ DOMAIN number_to_images = {}
         /\ organized = {}
         /\ copies = EmptyBag
    /\ pc = "done" =>
         /\ \E i \in Images : ResultOf(i) # <<>>
         /\ {o.number : o \in organized} = DOMAIN number_to_images
         /\ organized # {}

\* replies with only an out-of-range number, with 'none', and a failed image:
\* nothing to organize
C17_OnlyEmptyResults ==
    /\ pc = "nothing_detected"
    /\ \E i, j, k \in Images :
         /\ env[i] = Reply(Reply_12)
         /\ env[j] = Reply(Reply_none)
         /\ env[k] = Corrupt


\* the wait the claim gives for retry k
ClaimedWait(k) == Min2(WaitMax, Max2(WaitMin, Pow2(k - 1)))

\* C16 as claimed: a task whose every call raises the transient error waits
\* before each of its retries 1..4, ClaimedWait(k) seconds before retry k
\* (2, 2, 4, 8: never decreasing, within 2..30), and waits only between
\* attempts: one wait less than attempts, none before the first attempt and
\* none after the last.
C16_BackoffSchedule ==
    \A i \in Images :
        /\ \A k \in DOMAIN backoff[i] :
             /\ backoff[i][k] = ClaimedWait(k)
             /\ backoff[i][k] >= WaitMin /\ backoff[i][k] <= WaitMax
             /\ k > 1 => backoff[i][k - 1] <= backoff[i][k]
        /\ attempts[i] = 0 => backoff[i] = <<>>
        /\ Terminal(i) => Len(backoff[i]) = attempts[i] - 1
        /\ Terminal(i) /\ env[i] = Transient =>
             Len(backoff[i]) = StopAfterAttempt - 1

\* process() has returned
RunOver == pc \in {"no_files", "no_client", "nothing_detected", "done"}

\* C15: under fairness every submitted task eventually reaches Succeeded or
\* Failed and stays there with the one result it produced; a result is
\* consumed only from a terminal task and at most once per image; the
\* dispatcher eventually leaves the completion loop and the run ends, for
\* good and with every task that was ever submitted terminal and consumed;
\* organizing begins only when every task is terminal and every result has
\* been consumed exactly once.
C15_EveryTaskTerminates ==
    /\ <>(/\ RunOver
           /\ \A i \in Images : st[i] # "Unsubmitted" => Terminal(i) /\ i \in consumed)
    /\ [][~RunOver]_vars
    /\ [][\A i \in Images : st[i] # "Unsubmitted" => st'[i] # "Unsubmitted"]_vars
    /\ [][\A i \in Images :
            /\ Terminal(i) => st'[i] = st[i] /\ outcome'[i] = outcome[i]
            /\ i \in consumed => i \in consumed']_vars
    /\ [][progress' # progress =>
            /\ progress' = progress + 1
            /\ \E i \in Images : Terminal(i) /\ i \notin consumed /\ consumed' = consumed \cup {i}]_vars
    /\ [](/\ \A i \in Images : (outcome[i] # NoOutcome) <=> Terminal(i)
          /\ \A i \in consumed : Terminal(i)
          /\ progress = Cardinality(consumed)
          /\ Dispatched => /\ \A i \in Images : Terminal(i)
                           /\ consumed = Images
                           /\ progress = Len(files))

\* a finished run with a succeeded task, a failed task and a future that
\* raised
C15_RunEndedAllKinds ==
    /\ pc = "done"
    /\ \E i, j, k \in Images :
         /\ st[i] = "Succeeded"
         /\ st[j] = "Failed" /\ outcome[j].kind = "return"
         /\ outcome[k].kind = "raise"

====
